---- MODULE Spec2Model ----
(***************************************************************************)
(* Research Assistant backend (src/backend/main.py): the LangGraph agent   *)
(* loop (agent node, tools node, should_continue) and the /research        *)
(* request adapter that streams the loop and shapes the response.          *)
(*                                                                         *)
(* Text is a sequence of pieces.  A piece is one character, except that    *)
(* the literals "Source:", "https://" and "http://" are one piece each,    *)
(* so that the substring test and the regular expression of the adapter    *)
(* are computed on the text and not assumed.                               *)
(***************************************************************************)
EXTENDS Naturals, Sequences, FiniteSets

VARIABLES
    pc,              \* position of the request: idle, agent, tools, end, done, error, rejected
    gateway,         \* the behaviour of the Model Gateway serving this request
    messages,        \* state["messages"] of the graph: the conversation
    state_sources,   \* state["sources"] of the graph
    step,            \* supersteps of the graph executed so far
    next_id,         \* the next tool-call id the Model Gateway hands out
    model_input,     \* the messages the Model Gateway was last invoked with
    reqs,            \* the /research requests of two clients served side by side
    conversation_history,  \* st.session_state.conversation_history of a browser session
    request_count,         \* st.session_state.request_count
    user_input,            \* st.session_state.user_input
    answer,                \* how the last Process Request run of the session went
    response_text,   \* adapter accumulator (line 273)
    tool_calls,      \* adapter accumulator (line 274)
    sources,         \* adapter accumulator (line 275)
    status_code,     \* HTTP status of the answer, 0 while the request runs
    result           \* the ResearchResponse payload, NoResult until answered

vars == <<pc, gateway, messages, state_sources, step, next_id, model_input,
          response_text, tool_calls, sources, status_code, result, reqs,
          conversation_history, request_count, user_input, answer>>

\* the variables of the frontend session
session == <<conversation_history, request_count, user_input, answer>>

\* the variables of the single request
single == <<pc, gateway, messages, state_sources, step, next_id, model_input,
            response_text, tool_calls, sources, status_code, result>>

(***************************************************************************)
(* Bounds of the model.                                                    *)
(***************************************************************************)
\* cycles in which a freely answering Model Gateway may request tools
MaxCycles == 2

\* Process Request clicks of the frontend session between two Clear History
MaxRequests == 3

\* cycles in which the gateway of the two side-by-side requests asks for tools
PeerCycles == 1

(***************************************************************************)
(* Program constants.                                                      *)
(***************************************************************************)
\* research_agent.stream(inputs) runs with LangGraph's default recursion
\* limit: at most 25 supersteps (agent or tools) before GraphRecursionError
RecursionLimit == 25
\* list(dict.fromkeys(sources))[:10]
SourcesCap == 10

NoResult == [status |-> "none"]

(***************************************************************************)
(* Text.                                                                   *)
(***************************************************************************)
Marker == "Source:"
Schemes == {"https://", "http://"}
\* the characters the URL pattern excludes: whitespace, <, > and "
Delimiters == {" ", "<", ">", "\""}

FALLBACK == <<"Research completed. The agent gathered information but didn't generate a summary. Try refining your query.">>

\* 'Source:' in msg.content
Contains(content, piece) == \E i \in 1..Len(content) : content[i] = piece

\* end of the longest run of non-delimiters starting at position i
RECURSIVE RunEnd(_, _)
RunEnd(content, i) ==
    IF i < Len(content) /\ content[i + 1] \notin Delimiters
    THEN RunEnd(content, i + 1)
    ELSE i

\* re.findall(r'https?://[^\s<>"]+', content): leftmost, greedy,
\* non-overlapping matches, scanning from position i
RECURSIVE FindAllFrom(_, _)
FindAllFrom(content, i) ==
    IF i > Len(content) THEN <<>>
    ELSE IF content[i] \in Schemes /\ i < Len(content)
            /\ content[i + 1] \notin Delimiters
         THEN LET j == RunEnd(content, i + 1)
              IN  <<SubSeq(content, i, j)>> \o FindAllFrom(content, j + 1)
         ELSE FindAllFrom(content, i + 1)

FindAll(content) == FindAllFrom(content, 1)

\* request.query.strip(): leading and trailing whitespace removed
RECURSIVE strip(_)
strip(q) ==
    IF q = <<>> THEN q
    ELSE IF Head(q) = " " THEN strip(Tail(q))
    ELSE IF q[Len(q)] = " " THEN strip(SubSeq(q, 1, Len(q) - 1))
    ELSE q

(***************************************************************************)
(* Messages.  A ToolRequest is [id, name]; its arguments only reach the    *)
(* tool bodies, whose outputs are chosen below.                            *)
(***************************************************************************)
HumanMessage(content) ==
    [role |-> "user", content |-> content, tool_calls |-> <<>>, tool_call_id |-> 0]

AIMessage(content, calls) ==
    [role |-> "assistant", content |-> content, tool_calls |-> calls, tool_call_id |-> 0]

ToolMessage(content, id) ==
    [role |-> "tool", content |-> content, tool_calls |-> <<>>, tool_call_id |-> id]

Last(s) == s[Len(s)]

RECURSIVE Flatten(_)
Flatten(ss) == IF ss = <<>> THEN <<>> ELSE Head(ss) \o Flatten(Tail(ss))

(***************************************************************************)
(* The tool registry and what the tools can return.                        *)
(***************************************************************************)
\* tools = [search_web, fetch_url_content, analyze_information, generate_report]
tools == <<"search_web", "fetch_url_content", "analyze_information", "generate_report">>

ToolNames == {tools[i] : i \in 1..Len(tools)}

\* a tool name the model makes up
UnknownTool == "send_email"

Url(c) == <<"https://", c>>

\* one entry of search_web's result list: title, snippet, "Source: {url}"
SearchEntry(url) == <<"r", " ", Marker, " ">> \o url \o <<" ">>

\* search_web's text for the result URLs urls
SearchResults(urls) ==
    <<"S", " ">> \o Flatten([i \in 1..Len(urls) |-> SearchEntry(urls[i])]) \o <<"F">>

SearchA == SearchResults(<<Url("a"), Url("b"), Url("c"), Url("b"), Url("e")>>)

SearchB ==
    SearchResults(<<Url("d"), Url("e"), Url("f"), Url("g"), Url("h"), Url("i"),
                    Url("j"), Url("k"), Url("l"), Url("a")>>)

\* "No results found for: {query}"
NoResults == <<"N">>

\* "Search error: {e}"
SearchError == <<"E">>

\* fetch_url_content's text: "Content from {url}:", the page, the trailer
FetchContent(url, page) == <<"C", " ">> \o url \o <<":", " ">> \o page \o <<" ", "T">>

\* a page without the marker, and a page quoting a source in markup
FetchPlain == FetchContent(Url("m"), <<"x">>)

FetchCiting == FetchContent(Url("m"), <<"x", " ", Marker, " ", "<">> \o Url("a") \o <<">">>)

\* "Error: Timeout while fetching {url}"
FetchError == <<"E", " ">> \o Url("m")

\* analyze_information and generate_report return fixed prose
Analysis == <<"A">>

Report == <<"G">>

\* ToolNode's text for a name that is not in the registry
InvalidTool == <<"E", " ", "i">>

\* the texts a tool call can produce
Outputs(name) ==
    CASE name = "search_web" -> {SearchA, SearchB, NoResults, SearchError}
      [] name = "fetch_url_content" -> {FetchPlain, FetchCiting, FetchError}
      [] name = "analyze_information" -> {Analysis}
      [] name = "generate_report" -> {Report}
      [] OTHER -> {InvalidTool}

AllOutputs == UNION {Outputs(n) : n \in ToolNames \cup {UnknownTool}}

\* the sequences of texts the calls of one assistant message can produce
OutputsFor(calls) ==
    {o \in [1..Len(calls) -> AllOutputs] :
        \A k \in 1..Len(calls) : o[k] \in Outputs(calls[k].name)}

(***************************************************************************)
(* The Model Gateway, model_with_tools.invoke(messages): opaque.  A        *)
(* "varied" gateway answers freely and stops requesting tools after        *)
(* MaxCycles cycles; a "stubborn" gateway requests a tool on every call.   *)
(***************************************************************************)
Gateways == {"varied", "stubborn"}

\* the ToolRequests for the names, with ids first, first + 1, ...
Requests(names, first) ==
    [k \in 1..Len(names) |-> [id |-> first + k - 1, name |-> names[k]]]

\* the text and the requested tool names of the assistant messages with
\* which a varied gateway asks for tools
ToolReplies ==
    { <<<<>>, <<"search_web">>>>,
      <<<<"t", "1">>, <<"search_web">>>>,
      <<<<>>, <<"fetch_url_content">>>>,
      <<<<>>, <<"fetch_url_content", "search_web">>>>,
      <<<<"t", "1">>, <<"analyze_information", "generate_report">>>>,
      <<<<>>, <<UnknownTool>>>> }

\* the texts of the assistant messages with which it gives its final answer
FinalReplies == { <<>>, <<"t", "2">> }

\* the tool-requesting messages of a "brief" gateway
BriefReplies ==
    { <<<<"t", "1">>, <<"fetch_url_content">>>>,
      <<<<>>, <<UnknownTool>>>> }

\* the replies the gateway gw can give at its next call, after st supersteps
Replies(gw, st, first) ==
    IF gw = "stubborn"
    THEN {AIMessage(<<>>, Requests(<<"analyze_information">>, first))}
    ELSE {AIMessage(t, <<>>) : t \in FinalReplies}
         \cup (IF gw = "brief"
               THEN IF st \div 2 < PeerCycles
                    THEN {AIMessage(r[1], Requests(r[2], first)) : r \in BriefReplies}
                    ELSE {}
               ELSE IF st \div 2 < MaxCycles
                    THEN {AIMessage(r[1], Requests(r[2], first)) : r \in ToolReplies}
                    ELSE {})

(***************************************************************************)
(* The graph: state reducer, nodes and routing.                            *)
(***************************************************************************)
\* mutant: a plain list field, which a node's update overwrites
add_messages_Overwrite(left, right) == right

\* messages: Annotated[list, add_messages]: a node's messages are appended
add_messages(left, right) == left \o right

\* mutant: routes on the text of the message instead of its tool calls
should_continue_OnText(msgs) ==
    IF Last(msgs).content # <<>> THEN "end" ELSE "tools"

\* should_continue: "tools" when the last message has tool calls, else END
should_continue(msgs) ==
    IF Len(Last(msgs).tool_calls) > 0 THEN "tools" ELSE "end"

\* mutant: a tools node that drops the calls of names outside the registry
ToolNode_SkipsUnknown(msgs, outs) ==
    LET calls == Last(msgs).tool_calls
        known == {k \in 1..Len(calls) : calls[k].name \in ToolNames}
    IN  [i \in 1..Cardinality(known) |->
            LET k == CHOOSE c \in known : Cardinality({j \in known : j <= c}) = i
            IN  ToolMessage(outs[k], calls[k].id)]

\* mutant: numbers the tool messages by position instead of copying the ids
ToolNode_PositionIds(msgs, outs) ==
    [k \in 1..Len(Last(msgs).tool_calls) |-> ToolMessage(outs[k], k)]

\* mutant: emits the tool messages in reverse order of the calls
ToolNode_Reversed(msgs, outs) ==
    LET calls == Last(msgs).tool_calls
        n == Len(calls)
    IN  [k \in 1..n |-> ToolMessage(outs[n + 1 - k], calls[n + 1 - k].id)]

\* ToolNode(tools): one ToolMessage per tool call of the last message, in
\* the order of the calls, each with its call's id; outs[k] is the text the
\* k-th call produced
ToolNode(msgs, outs) ==
    LET calls == Last(msgs).tool_calls
    IN  [k \in 1..Len(calls) |-> ToolMessage(outs[k], calls[k].id)]

\* mutant: the model is given the last message only
ModelInput_LastOnly(msgs) == <<Last(msgs)>>

\* call_model: messages = state["messages"]; invoke(messages)
ModelInput(msgs) == msgs

\* mutant: the error texts of the tools leave the tool as exceptions
ToolRaises_Propagates(out) == out \in {SearchError, FetchError}

\* search_web and fetch_url_content catch every exception and return a text
\* (lines 97-100, 130-135); the other two tools only format their arguments
ToolRaises(out) == FALSE

\* mutant: a node that writes the URLs of its messages into the state
UpdateSources_Extracted(old, new) ==
    old \o Flatten([k \in 1..Len(new) |-> FindAll(new[k].content)])

\* state["sources"] after a node's update: both nodes return "messages"
\* only (line 207, ToolNode), so the field keeps its value
UpdateSources(old, new) == old

\* mutant: a graph without a superstep limit
OutOfSteps_Never(st) == FALSE

\* the graph raises GraphRecursionError when st supersteps have run and a
\* node is still to run
OutOfSteps(st) == st >= RecursionLimit

(***************************************************************************)
(* The request adapter, perform_research.                                  *)
(***************************************************************************)
\* the queries a request can carry
Queries == { <<>>, <<" ", " ">>, <<" ", "q">> }

\* the depth hints a request can carry
Depths == {"quick", "standard", "deep"}

\* research_prompt = f"Research Request: {request.query} ..."
research_prompt(query) == <<"P", " ">> \o query \o <<" ", "I">>

\* mutant: tests the query without stripping it
EmptyQuery_NoStrip(query) == query = <<>>

\* not request.query or len(request.query.strip()) == 0
EmptyQuery(query) == query = <<>> \/ Len(strip(query)) = 0

\* mutant: the depth hint is written into the prompt
inputs_DepthInPrompt(query, depth) ==
    [messages |-> <<HumanMessage(research_prompt(query) \o <<" ", depth>>)>>,
     sources |-> <<>>]

\* inputs = {"messages": [HumanMessage(content=research_prompt)], "sources": []}
inputs(query, depth) ==
    [messages |-> <<HumanMessage(research_prompt(query))>>, sources |-> <<>>]

\* mutant: keeps the first non-empty content
CollectText_KeepFirst(text, msg) == IF text = <<>> THEN msg.content ELSE text

\* lines 285-286: a non-empty content replaces response_text
CollectText(text, msg) == IF msg.content # <<>> THEN msg.content ELSE text

\* lines 287-288: a non-empty list of tool calls replaces tool_calls
CollectToolCalls(names, msg) ==
    IF Len(msg.tool_calls) > 0
    THEN [k \in 1..Len(msg.tool_calls) |-> msg.tool_calls[k].name]
    ELSE names

\* mutant: scans every message, with or without the marker
ExtractUrls_Ungated(msg) == FindAll(msg.content)

\* lines 293-297 for one message of the tools node
ExtractUrls(msg) ==
    IF Contains(msg.content, Marker) THEN FindAll(msg.content) ELSE <<>>

\* lines 292-297: the URLs of the node's messages extend sources
ExtractSources(srcs, msgs) ==
    srcs \o Flatten([k \in 1..Len(msgs) |-> ExtractUrls(msgs[k])])

\* mutant: no fallback text
FinalText_NoFallback(text) == text

\* lines 299-300
FinalText(text) == IF text = <<>> THEN FALLBACK ELSE text

\* list(dict.fromkeys(s)): the keys of a dict are its distinct insertions, in
\* the order of their first insertion
Dedup(s) ==
    LET first == {i \in 1..Len(s) : \A j \in 1..(i - 1) : s[j] # s[i]}
    IN  [k \in 1..Cardinality(first) |->
            s[CHOOSE i \in first : Cardinality({j \in first : j <= i}) = k]]

\* s[:n]
Take(s, n) == SubSeq(s, 1, IF Len(s) < n THEN Len(s) ELSE n)

\* mutant: cuts to the cap before removing the duplicates
UniqueSources_CapFirst(srcs) == Dedup(Take(srcs, SourcesCap))

\* line 303
UniqueSources(srcs) == Take(Dedup(srcs), SourcesCap)

(***************************************************************************)
(* Initial state and steps.                                                *)
(***************************************************************************)
(***************************************************************************)
(* Two /research requests in one server process.  The graph state of a     *)
(* run lives in the stream() call of its request, the accumulators are     *)
(* locals of perform_research.                                             *)
(***************************************************************************)
Clients == {"c1", "c2"}

\* a request that has not arrived yet
NewRequest ==
    [pc |-> "idle", query |-> <<>>, depth |-> "standard",
     messages |-> <<>>, step |-> 0, next_id |-> 1,
     response_text |-> <<>>, tool_calls |-> <<>>, sources |-> <<>>,
     status_code |-> 0, result |-> NoResult]

\* mutant: one graph state for all runs
Thread_Shared(r) == "c1"

\* research_agent.stream(inputs): compiled without a checkpointer, every
\* call runs on the state built from its own inputs
Thread(r) == r

\* mutant: the accumulators are module-level variables
Frame_Global(r) == "c1"

\* response_text, tool_calls, sources are locals of the call of
\* perform_research that serves the request
Frame(r) == r

(***************************************************************************)
(* The Streamlit frontend: one browser session, one script run per click.  *)
(***************************************************************************)
\* no Process Request run yet
NoAnswer == [kind |-> "none", status |-> 0, ended |-> "none"]

\* two of the texts the example and quick-topic buttons put into user_input
Examples == { <<"x", "1">>, <<"x", "2">> }

\* two payloads of a successful /research answer (lines 305-310 of the backend)
Payloads ==
    { [response |-> <<"t", "2">>, tools_used |-> <<>>, sources |-> <<>>,
       status |-> "success"],
      [response |-> FALLBACK, tools_used |-> <<"search_web">>,
       sources |-> <<Url("a"), Url("b")>>, status |-> "success"] }

\* what requests.post(.../research, json={"query": user_message, ...}) can
\* give: an HTTP answer of the backend (400 for an empty query, else 200
\* with a payload or 500), or an exception of the transport
Answers(user_message) ==
    (IF EmptyQuery(user_message)
     THEN {[kind |-> "http", status |-> 400, body |-> NoResult]}
     ELSE {[kind |-> "http", status |-> 200, body |-> p] : p \in Payloads}
          \cup {[kind |-> "http", status |-> 500, body |-> NoResult]})
    \cup {[kind |-> k, status |-> 0, body |-> NoResult] :
             k \in {"connection_error", "timeout", "exception"}}

\* how far a script run gets: to its end, or Streamlit stops it at an st.*
\* call for a newer interaction, before line 374 or between 374 and 400
Endings == {"completed", "stopped_early", "stopped_late"}

\* mutant: the click is not counted
CountRequest_Skipped(n) == n

\* st.session_state.request_count += 1
CountRequest(n) == n + 1

\* no exception from requests.post and response.status_code == 200
Succeeded(ans) == ans.kind = "http" /\ ans.status = 200

\* the entry of lines 374-381 (timestamp and elapsed time left out)
HistoryEntry(user_message, body) ==
    [user_message |-> user_message,
     agent_response |-> body.response,
     tools_used |-> body.tools_used,
     sources |-> body.sources]

\* mutant: the entry is saved twice
SaveToHistory_Twice(history, entry) == history \o <<entry, entry>>

\* st.session_state.conversation_history.append({...})
SaveToHistory(history, entry) == Append(history, entry)

Init ==
    /\ pc = "idle"
    /\ gateway = "none"
    /\ messages = <<>>
    /\ state_sources = <<>>
    /\ step = 0
    /\ next_id = 1
    /\ model_input = <<>>
    /\ response_text = <<>>
    /\ tool_calls = <<>>
    /\ sources = <<>>
    /\ status_code = 0
    /\ result = NoResult
    /\ reqs = [r \in Clients |-> NewRequest]
    /\ conversation_history = <<>>
    /\ request_count = 0
    /\ user_input = <<>>
    /\ answer = NoAnswer

\* POST /research with an empty query: HTTPException 400 (lines 255-256),
\* re-raised at lines 312-313
RejectRequest ==
    /\ pc = "idle"
    /\ \E query \in Queries, depth \in Depths :
          /\ EmptyQuery(query)
          /\ pc' = "rejected"
          /\ status_code' = 400
    /\ UNCHANGED <<session, reqs, gateway, messages, state_sources, step, next_id, model_input,
                   response_text, tool_calls, sources, result>>

\* POST /research: the inputs and the accumulators of lines 259-275
StartResearch ==
    /\ pc = "idle"
    /\ \E query \in Queries, depth \in Depths, gw \in Gateways :
          /\ ~EmptyQuery(query)
          /\ gateway' = gw
          /\ messages' = inputs(query, depth).messages
          /\ state_sources' = inputs(query, depth).sources
    /\ response_text' = <<>>
    /\ tool_calls' = <<>>
    /\ sources' = <<>>
    /\ pc' = "agent"
    /\ UNCHANGED <<session, reqs, step, next_id, model_input, status_code, result>>

\* the agent node (call_model), the adapter's handling of its output
\* (lines 280-288) and the routing out of it
call_model ==
    /\ pc = "agent"
    /\ model_input' = ModelInput(messages)
    /\ \E response \in Replies(gateway, step, next_id) :
          /\ messages' = add_messages(messages, <<response>>)
          /\ next_id' = next_id + Len(response.tool_calls)
          /\ response_text' = CollectText(response_text, response)
          /\ tool_calls' = CollectToolCalls(tool_calls, response)
    /\ step' = step + 1
    /\ pc' = IF should_continue(messages') = "end" THEN "end"
             ELSE IF OutOfSteps(step') THEN "error" ELSE "tools"
    /\ status_code' = IF pc' = "error" THEN 500 ELSE 0
    /\ state_sources' = UpdateSources(state_sources, <<Last(messages')>>)
    /\ UNCHANGED <<session, reqs, gateway, sources, result>>

\* model_with_tools.invoke raises: the request ends at lines 314-319
ModelFails ==
    /\ pc = "agent"
    /\ model_input' = ModelInput(messages)
    /\ pc' = "error"
    /\ status_code' = 500
    /\ UNCHANGED <<session, reqs, gateway, messages, state_sources, step, next_id,
                   response_text, tool_calls, sources, result>>

\* the tools node and the adapter's handling of its output (lines 289-297);
\* an exception that left a tool body would end the request at lines 314-319
tools_node ==
    /\ pc = "tools"
    /\ \E outs \in OutputsFor(Last(messages).tool_calls) :
          IF \E k \in 1..Len(outs) : ToolRaises(outs[k])
          THEN /\ pc' = "error"
               /\ UNCHANGED <<messages, sources, state_sources>>
          ELSE LET new == ToolNode(messages, outs)
               IN  /\ messages' = add_messages(messages, new)
                   /\ sources' = ExtractSources(sources, new)
                   /\ state_sources' = UpdateSources(state_sources, new)
                   /\ pc' = IF OutOfSteps(step + 1) THEN "error" ELSE "agent"
    /\ step' = step + 1
    /\ status_code' = IF pc' = "error" THEN 500 ELSE 0
    /\ UNCHANGED <<session, reqs, gateway, next_id, model_input, response_text, tool_calls, result>>

\* the stream is exhausted: lines 299-310
Respond ==
    /\ pc = "end"
    /\ result' = [response |-> FinalText(response_text),
                  tools_used |-> tool_calls,
                  sources |-> UniqueSources(sources),
                  status |-> "success"]
    /\ status_code' = 200
    /\ pc' = "done"
    /\ UNCHANGED <<session, reqs, gateway, messages, state_sources, step, next_id, model_input,
                   response_text, tool_calls, sources>>

Next ==
    \/ RejectRequest
    \/ StartResearch
    \/ call_model
    \/ ModelFails
    \/ tools_node
    \/ Respond

Spec == Init /\ [][Next]_vars

(***************************************************************************)
(* The same steps, taken for one of two requests that are served side by   *)
(* side by a brief gateway.                                                *)
(***************************************************************************)
\* lines 255-256 and 312-313 for the request of client r
RejectRequestOf(r) ==
    /\ reqs[r].pc = "idle"
    /\ \E query \in Queries, depth \in Depths :
          /\ EmptyQuery(query)
          /\ reqs' = [reqs EXCEPT ![r].query = query,
                                  ![r].depth = depth,
                                  ![r].pc = "rejected",
                                  ![r].status_code = 400]
    /\ UNCHANGED <<single, session>>

\* lines 259-275 for the request of client r
StartResearchOf(r) ==
    /\ reqs[r].pc = "idle"
    /\ \E query \in Queries, depth \in Depths :
          /\ ~EmptyQuery(query)
          /\ reqs' = [reqs EXCEPT ![r].query = query,
                                  ![r].depth = depth,
                                  ![r].pc = "agent",
                                  ![Thread(r)].messages = inputs(query, depth).messages,
                                  ![Thread(r)].step = 0,
                                  ![Thread(r)].next_id = 1,
                                  ![Frame(r)].response_text = <<>>,
                                  ![Frame(r)].tool_calls = <<>>,
                                  ![Frame(r)].sources = <<>>]
    /\ UNCHANGED <<single, session>>

\* the agent node and lines 280-288 for the request of client r
call_model_of(r) ==
    /\ reqs[r].pc = "agent"
    /\ LET run == reqs[Thread(r)]
       IN  \E response \in Replies("brief", run.step, run.next_id) :
              LET msgs == add_messages(run.messages, <<response>>)
                  to == IF should_continue(msgs) = "end" THEN "end"
                        ELSE IF OutOfSteps(run.step + 1) THEN "error" ELSE "tools"
              IN  reqs' = [reqs EXCEPT
                      ![Thread(r)].messages = msgs,
                      ![Thread(r)].next_id = @ + Len(response.tool_calls),
                      ![Thread(r)].step = @ + 1,
                      ![Frame(r)].response_text = CollectText(@, response),
                      ![Frame(r)].tool_calls = CollectToolCalls(@, response),
                      ![r].pc = to,
                      ![r].status_code = IF to = "error" THEN 500 ELSE 0]
    /\ UNCHANGED <<single, session>>

\* mutant: the exception is swallowed and the run is taken as finished
ModelFailsOf_Swallowed(r) ==
    /\ reqs[r].pc = "agent"
    /\ reqs' = [reqs EXCEPT ![r].pc = "end"]
    /\ UNCHANGED <<single, session>>

\* the Model Gateway raises in the run of client r: lines 314-319
ModelFailsOf(r) ==
    /\ reqs[r].pc = "agent"
    /\ reqs' = [reqs EXCEPT ![r].pc = "error", ![r].status_code = 500]
    /\ UNCHANGED <<single, session>>

\* the tools node and lines 289-297 for the request of client r
tools_node_of(r) ==
    /\ reqs[r].pc = "tools"
    /\ LET run == reqs[Thread(r)]
       IN  \E outs \in OutputsFor(Last(run.messages).tool_calls) :
              IF \E k \in 1..Len(outs) : ToolRaises(outs[k])
              THEN reqs' = [reqs EXCEPT ![Thread(r)].step = @ + 1,
                                       ![r].pc = "error",
                                       ![r].status_code = 500]
              ELSE LET new == ToolNode(run.messages, outs)
                       to == IF OutOfSteps(run.step + 1) THEN "error" ELSE "agent"
                   IN  reqs' = [reqs EXCEPT
                           ![Thread(r)].messages = add_messages(@, new),
                           ![Thread(r)].step = @ + 1,
                           ![Frame(r)].sources = ExtractSources(@, new),
                           ![r].pc = to,
                           ![r].status_code = IF to = "error" THEN 500 ELSE 0]
    /\ UNCHANGED <<single, session>>

\* lines 299-310 for the request of client r
RespondOf(r) ==
    /\ reqs[r].pc = "end"
    /\ LET acc == reqs[Frame(r)]
       IN  reqs' = [reqs EXCEPT
               ![r].result = [response |-> FinalText(acc.response_text),
                              tools_used |-> acc.tool_calls,
                              sources |-> UniqueSources(acc.sources),
                              status |-> "success"],
               ![r].status_code = 200,
               ![r].pc = "done"]
    /\ UNCHANGED <<single, session>>

PeerNext ==
    \/ \E r \in Clients : RejectRequestOf(r)
    \/ \E r \in Clients : StartResearchOf(r)
    \/ \E r \in Clients : call_model_of(r)
    \/ \E r \in Clients : ModelFailsOf(r)
    \/ \E r \in Clients : tools_node_of(r)
    \/ \E r \in Clients : RespondOf(r)

PeerSpec == Init /\ [][PeerNext]_vars

(***************************************************************************)
(* The script runs of the frontend session.                                *)
(***************************************************************************)
\* Process Request with a non-empty text area: lines 298-415
ProcessRequest ==
    /\ request_count < MaxRequests
    /\ \E user_message \in Queries :
          /\ user_message # <<>>
          /\ \E ans \in Answers(user_message), ended \in Endings :
                /\ answer' = [kind |-> ans.kind, status |-> ans.status, ended |-> ended]
                /\ conversation_history' =
                      IF Succeeded(ans) /\ ended # "stopped_early"
                      THEN SaveToHistory(conversation_history,
                                         HistoryEntry(user_message, ans.body))
                      ELSE conversation_history
                /\ user_input' =
                      IF Succeeded(ans) /\ ended = "completed"
                      THEN <<>> ELSE user_input
    /\ request_count' = CountRequest(request_count)
    /\ UNCHANGED <<single, reqs>>

\* Clear History: lines 220-224
ClearHistory ==
    /\ conversation_history' = <<>>
    /\ request_count' = 0
    /\ UNCHANGED <<user_input, answer, single, reqs>>

\* Clear Input: lines 216-218
ClearInput ==
    /\ user_input' = <<>>
    /\ UNCHANGED <<conversation_history, request_count, answer, single, reqs>>

\* an example, quick-topic or demo button: user_input = prompt; st.rerun()
ExampleButton ==
    /\ \E prompt \in Examples : user_input' = prompt
    /\ UNCHANGED <<conversation_history, request_count, answer, single, reqs>>

FrontNext ==
    \/ ProcessRequest
    \/ ClearHistory
    \/ ClearInput
    \/ ExampleButton

FrontSpec == Init /\ [][FrontNext]_vars

(***************************************************************************)
(* Vocabulary of the properties.                                           *)
(***************************************************************************)
Terminal == {"done", "error", "rejected"}

Range(s) == {s[i] : i \in 1..Len(s)}

NoDuplicates(s) == \A i, j \in 1..Len(s) : s[i] = s[j] => i = j

\* the position of the first occurrence of u in s (u occurs in s)
FirstPos(s, u) == CHOOSE i \in 1..Len(s) : s[i] = u /\ \A j \in 1..(i - 1) : s[j] # u

ToolIdx == {i \in 1..Len(messages) : messages[i].role = "tool"}

AssistantIdx == {i \in 1..Len(messages) : messages[i].role = "assistant"}

\* the ToolRequests (message position, request position) made before position i
RequestsBefore(i) ==
    UNION {{<<j, k>> : k \in 1..Len(messages[j].tool_calls)} :
              j \in {a \in AssistantIdx : a < i}}

\* the names of all ToolRequests of the conversation, in order
InvokedNames ==
    Flatten([i \in 1..Len(messages) |->
                [k \in 1..Len(messages[i].tool_calls) |-> messages[i].tool_calls[k].name]])

\* the URL-shaped substrings of the tool-role messages that carry the
\* marker, in conversation order
ScannedUrls ==
    Flatten([i \in 1..Len(messages) |->
                IF messages[i].role = "tool" /\ Contains(messages[i].content, Marker)
                THEN FindAll(messages[i].content) ELSE <<>>])

Min(a, b) == IF a < b THEN a ELSE b

(***************************************************************************)
(* C1.  Every tool-role message carries the id of exactly one ToolRequest  *)
(* of an assistant message before it, and every ToolRequest of an          *)
(* assistant message that has been dispatched (one that is no longer the   *)
(* last message) has exactly one tool-role message after it.               *)
(***************************************************************************)
C1_ReferentialIntegrity ==
    /\ \A i \in ToolIdx :
          Cardinality({jk \in RequestsBefore(i) :
              messages[jk[1]].tool_calls[jk[2]].id = messages[i].tool_call_id}) = 1
    /\ \A j \in AssistantIdx : j < Len(messages) =>
          \A k \in 1..Len(messages[j].tool_calls) :
              Cardinality({i \in ToolIdx :
                  i > j /\ messages[i].tool_call_id = messages[j].tool_calls[k].id}) = 1

\* two dispatches have happened, one of them of two requests
C1_Witness ==
    /\ pc = "done"
    /\ Cardinality(ToolIdx) >= 3
    /\ \E j \in AssistantIdx : Len(messages[j].tool_calls) = 2

(***************************************************************************)
(* C2.  The loop runs at most RecursionLimit supersteps (at most 13 model  *)
(* calls and 12 tool dispatches), every step of a request takes it closer  *)
(* to its answer, and a request that has no answer yet (the response, the  *)
(* 500 or the 400) can always take a step: no run cycles forever and none  *)
(* stops short of an answer.                                               *)
(***************************************************************************)
Progress ==
    step + (CASE pc = "idle" -> 0
              [] pc \in {"agent", "tools"} -> 1
              [] pc = "end" -> 2
              [] OTHER -> 3)

\* the request is at a position whose step has something to act on
CanStep ==
    \/ pc \in {"idle", "end"}
    \/ pc = "agent" /\ Replies(gateway, step, next_id) # {}
    \/ pc = "tools" /\ OutputsFor(Last(messages).tool_calls) # {}

C4_Dispatch ==
    [][pc = "tools" =>
          LET calls == Last(messages).tool_calls
              n == Len(messages)
          IN  /\ Len(messages') = n + Len(calls)
              /\ SubSeq(messages', 1, n) = messages
              /\ \A k \in 1..Len(calls) :
                    /\ messages'[n + k].role = "tool"
                    /\ messages'[n + k].tool_call_id = calls[k].id
                    /\ messages'[n + k].content \in Outputs(calls[k].name)]_vars

\* a dispatch of two requests has just happened
C4_Witness ==
    /\ pc = "agent"
    /\ Len(messages) >= 4
    /\ Len(messages[Len(messages) - 2].tool_calls) = 2
    /\ messages[Len(messages) - 1].role = "tool"
    /\ Last(messages).role = "tool"
    /\ messages[Len(messages) - 1].tool_call_id < Last(messages).tool_call_id

(***************************************************************************)
(* C5.  tools_used of a successful response lists the names of all tools   *)
(* requested during the run, over every cycle, in order, duplicates kept.  *)
(***************************************************************************)
C5_ToolsUsedAllCycles ==
    pc = "done" => result.tools_used = InvokedNames

(***************************************************************************)
(* C6.  When the final assistant message has empty text, the response is   *)
(* the fallback message.                                                   *)
(***************************************************************************)
C6_FallbackOnEmptyFinal ==
    (pc = "done" /\ Last(messages).content = <<>>) => result.response = FALLBACK

(***************************************************************************)
(* C7.  The response text of a successful answer is never empty.           *)
(***************************************************************************)
C7_ResponseNonEmpty ==
    status_code = 200 => (result.status = "success" /\ result.response # <<>>)

\* no assistant message carried text and the answer was given
C7_Witness ==
    /\ pc = "done"
    /\ \A i \in AssistantIdx : messages[i].content = <<>>
    /\ Cardinality(ToolIdx) > 0
    /\ result.response = FALLBACK

(***************************************************************************)
(* C8.  When the final assistant message has text, the response is that    *)
(* text.                                                                   *)
(***************************************************************************)
C8_FinalTextReturned ==
    (pc = "done" /\ Last(messages).content # <<>>) =>
        result.response = Last(messages).content

\* an earlier assistant message carried another text
C8_Witness ==
    /\ pc = "done"
    /\ Last(messages).content # <<>>
    /\ \E i \in AssistantIdx :
          messages[i].content # <<>> /\ messages[i].content # Last(messages).content

(***************************************************************************)
(* C9.  sources of a successful response has no duplicate, holds at most   *)
(* SourcesCap URLs, all of them extracted ones, in the order of their      *)
(* first appearance, and is the first SourcesCap distinct extracted URLs   *)
(* when there are more.                                                    *)
(***************************************************************************)
C9_SourcesDedupCapped ==
    pc = "done" =>
        LET s == result.sources
            all == ScannedUrls
        IN  /\ NoDuplicates(s)
            /\ Len(s) = Min(Cardinality(Range(all)), SourcesCap)
            /\ Range(s) \subseteq Range(all)
            /\ \A i, j \in 1..Len(s) : i < j => FirstPos(all, s[i]) < FirstPos(all, s[j])
            /\ \A u \in Range(all) \ Range(s) :
                  \A i \in 1..Len(s) : FirstPos(all, s[i]) < FirstPos(all, u)

\* more than SourcesCap distinct URLs were extracted, some of them twice
C9_Witness ==
    /\ pc = "done"
    /\ Cardinality(Range(ScannedUrls)) > SourcesCap
    /\ ~NoDuplicates(SubSeq(ScannedUrls, 1, SourcesCap))
    /\ Len(result.sources) = SourcesCap

(***************************************************************************)
(* C10, as claimed.  Every URL-shaped substring of every tool-role message *)
(* is in sources, unless the cap cut it.                                   *)
(***************************************************************************)
C10_Original ==
    pc = "done" =>
        \A i \in ToolIdx : \A u \in Range(FindAll(messages[i].content)) :
            u \in Range(result.sources) \/ Len(result.sources) = SourcesCap

(***************************************************************************)
(* C10, amended.  Every URL-shaped substring of every tool-role message    *)
(* that contains "Source:" is in sources, unless the cap cut it; a         *)
(* tool-role message without "Source:" contributes nothing to sources.     *)
(***************************************************************************)
C10_MarkedMessagesScanned ==
    pc = "done" =>
        LET marked == {i \in ToolIdx : Contains(messages[i].content, Marker)}
            found == UNION {Range(FindAll(messages[i].content)) : i \in marked}
            listed == Range(result.sources)
        IN  /\ found \subseteq listed \/ Len(result.sources) = SourcesCap
            /\ listed \subseteq found

\* a fetched page with the marker gave its URLs, one without gave none
C10_Witness ==
    /\ pc = "done"
    /\ \E i \in ToolIdx : messages[i].content = FetchCiting
    /\ \E i \in ToolIdx : messages[i].content = FetchError
    /\ Url("m") \o <<":">> \in Range(result.sources)
    /\ Url("m") \notin Range(result.sources)

(***************************************************************************)
(* C11.  A dispatch answers every ToolRequest whose name is not in the     *)
(* registry with exactly one tool-role message that carries the request's  *)
(* id and the text saying that the tool is not valid, and a dispatch that  *)
(* holds such a request hands over to the model call without an error.     *)
(***************************************************************************)
C11_UnknownToolAnswered ==
    [][pc = "tools" =>
          LET calls == Last(messages).tool_calls
              n == Len(messages)
              unknown == {k \in 1..Len(calls) : calls[k].name \notin ToolNames}
          IN  /\ \A k \in unknown :
                    /\ Len(messages') >= n + k
                    /\ messages'[n + k] = ToolMessage(InvalidTool, calls[k].id)
                    /\ Cardinality({i \in 1..Len(messages') :
                           /\ messages'[i].role = "tool"
                           /\ messages'[i].tool_call_id = calls[k].id}) = 1
              /\ unknown # {} =>
                    /\ pc' = "agent"
                    /\ status_code' = 0
                    /\ SubSeq(messages', 1, n) = messages]_vars

\* a run that asked for an unknown tool, was told so, and reached DONE with
\* a success payload
C11_Witness ==
    /\ pc = "done"
    /\ result.status = "success"
    /\ \E j \in AssistantIdx : \E k \in 1..Len(messages[j].tool_calls) :
          /\ messages[j].tool_calls[k].name \notin ToolNames
          /\ \E i \in ToolIdx :
                /\ i > j
                /\ messages[i] = ToolMessage(InvalidTool, messages[j].tool_calls[k].id)
                /\ \E a \in AssistantIdx : a > i

(***************************************************************************)
(* Vocabulary of the properties of the two side-by-side requests.          *)
(***************************************************************************)
\* the conversation and the accumulators that the request of client r uses
Conversation(r) == reqs[Thread(r)].messages

Accumulators(r) ==
    [response_text |-> reqs[Frame(r)].response_text,
     tool_calls |-> reqs[Frame(r)].tool_calls,
     sources |-> reqs[Frame(r)].sources]

NoAccumulators == [response_text |-> <<>>, tool_calls |-> <<>>, sources |-> <<>>]

\* a query without a character other than white space
Blank(query) == \A i \in 1..Len(query) : query[i] = " "

(***************************************************************************)
(* C12.  A request is rejected exactly when its query is empty or white    *)
(* space only; a rejected request has status 400, no conversation, no      *)
(* superstep, no accumulated text, tool name or URL and no payload, and    *)
(* it stays as it is (the 400 is never turned into a 500).                 *)
(***************************************************************************)
C12_BlankQueryRejected ==
    /\ [](\A r \in Clients :
            /\ reqs[r].pc # "idle" => (Blank(reqs[r].query) <=> reqs[r].pc = "rejected")
            /\ reqs[r].pc = "rejected" =>
                  /\ reqs[r].status_code = 400
                  /\ reqs[r].result = NoResult
                  /\ Conversation(r) = <<>>
                  /\ reqs[Thread(r)].step = 0
                  /\ Accumulators(r) = NoAccumulators)
    /\ [][\A r \in Clients : reqs[r].pc = "rejected" => reqs'[r] = reqs[r]]_vars

\* a white-space query was rejected while the other request was served
C12_Witness ==
    \E r, o \in Clients :
        /\ reqs[r].pc = "rejected"
        /\ reqs[r].query = <<" ", " ">>
        /\ reqs[r].status_code = 400
        /\ reqs[o].pc = "done"
        /\ Len(reqs[o].messages) >= 4

(***************************************************************************)
(* C13.  A step of a request that waits for the Model Gateway and gets no  *)
(* assistant message (the call failed), at the first call or later, ends   *)
(* the request with status 500 and without a payload, and changes nothing  *)
(* else: not the conversation, not the accumulators, nothing of the other  *)
(* request.  A failed request stays failed: no retry, no success payload.  *)
(***************************************************************************)
C13_ModelFailureIsFatal ==
    /\ [][\A r \in Clients :
            (/\ reqs[r].pc = "agent"
             /\ reqs'[r] # reqs[r]
             /\ Conversation(r)' = Conversation(r))
            => /\ reqs'[r] = [reqs[r] EXCEPT !.pc = "error", !.status_code = 500]
               /\ reqs'[r].result = NoResult
               /\ \A o \in Clients \ {r} : reqs'[o] = reqs[o]]_vars
    /\ [][\A r \in Clients : reqs[r].pc = "error" => reqs'[r] = reqs[r]]_vars
    /\ [](\A r \in Clients :
            reqs[r].pc = "error" => reqs[r].status_code = 500 /\ reqs[r].result = NoResult)

\* one request failed at its first model call, the other at the call after
\* a dispatch
C13_Witness ==
    \E r, o \in Clients :
        /\ reqs[r].pc = "error" /\ reqs[r].step = 0 /\ Len(reqs[r].messages) = 1
        /\ reqs[o].pc = "error" /\ reqs[o].step = 2 /\ Last(reqs[o].messages).role = "tool"
        /\ reqs[r].status_code = 500 /\ reqs[o].status_code = 500

(***************************************************************************)
(* C14.  Every dispatch, whatever its tools return (results or the error   *)
(* texts of a failed search or fetch), appends for each ToolRequest a      *)
(* tool-role message whose content is the text the tool returned, and      *)
(* hands over to the model call: no error status, one superstep more.      *)
(***************************************************************************)
C14_ToolErrorsBecomeMessages ==
    [][pc = "tools" =>
          LET calls == Last(messages).tool_calls
              n == Len(messages)
          IN  /\ pc' = "agent"
              /\ status_code' = 0
              /\ step' = step + 1
              /\ Len(messages') = n + Len(calls)
              /\ \A k \in 1..Len(calls) :
                    /\ messages'[n + k].role = "tool"
                    /\ messages'[n + k].tool_call_id = calls[k].id
                    /\ messages'[n + k].content \in Outputs(calls[k].name)]_vars

\* a search and a fetch failed in one dispatch, their error texts are in
\* the conversation, the model was called again and the run reached DONE
C14_Witness ==
    /\ pc = "done"
    /\ result.status = "success"
    /\ \E i, j \in ToolIdx :
          /\ messages[i].content = FetchError
          /\ messages[j].content = SearchError
          /\ \E a \in AssistantIdx : a > i /\ a > j

(***************************************************************************)
(* C15.  The conversation before a step is a prefix of the conversation    *)
(* after it: a model call adds one assistant message at the end, a         *)
(* dispatch adds tool-role messages at the end, no step changes or moves   *)
(* a message that was there.                                               *)
(***************************************************************************)
C15_AppendOnly ==
    [][/\ Len(messages') >= Len(messages)
       /\ SubSeq(messages', 1, Len(messages)) = messages
       /\ \A i \in (Len(messages) + 1)..Len(messages') :
             messages'[i].role = CASE pc = "idle" -> "user"
                                   [] pc = "agent" -> "assistant"
                                   [] OTHER -> "tool"]_vars

\* a conversation that grew over two dispatches, one of two requests
C15_Witness ==
    /\ pc = "done"
    /\ Len(messages) >= 7
    /\ Cardinality(AssistantIdx) = 3
    /\ Cardinality(ToolIdx) = 3

\* the requests that entered the loop
Started == {r \in Clients : reqs[r].pc \notin {"idle", "rejected"}}

\* what the Model Gateway or the tool gave the run of r after the first n
\* messages of its conversation
Follow(r, n) ==
    IF n < Len(Conversation(r)) THEN <<"message", Conversation(r)[n + 1]>>
    ELSE IF reqs[r].pc = "error" THEN <<"failure">>
    ELSE <<"pending">>

\* the Model Gateway and the tools were deterministic over the runs of r
\* and o: where the two conversations agreed, what followed agreed
Deterministic(r, o) ==
    \A n \in 1..Min(Len(Conversation(r)), Len(Conversation(o))) :
        SubSeq(Conversation(r), 1, n) = SubSeq(Conversation(o), 1, n)
        => \/ Follow(r, n) = Follow(o, n)
           \/ <<"pending">> \in {Follow(r, n), Follow(o, n)}

(***************************************************************************)
(* C16.  Two runs that start from the same initial conversation and get    *)
(* the same answers from the Model Gateway and the tools go the same way:  *)
(* at any time the conversation of one is a prefix of the other's, equal   *)
(* conversations come with equal accumulators, and when both have ended    *)
(* they ended alike, with the same conversation, status and payload        *)
(* (response text, tools_used, sources).                                   *)
(***************************************************************************)
C16_RunsRepeat ==
    \A r, o \in Started :
        (/\ Conversation(r)[1] = Conversation(o)[1]
         /\ Deterministic(r, o)
         /\ Len(Conversation(r)) <= Len(Conversation(o)))
        => /\ SubSeq(Conversation(o), 1, Len(Conversation(r))) = Conversation(r)
           /\ Conversation(r) = Conversation(o) => Accumulators(r) = Accumulators(o)
           /\ (reqs[r].pc \in Terminal /\ reqs[o].pc \in Terminal)
              => /\ Conversation(r) = Conversation(o)
                 /\ reqs[r].pc = reqs[o].pc
                 /\ reqs[r].status_code = reqs[o].status_code
                 /\ reqs[r].result = reqs[o].result

\* both requests went through a fetch that cited a source, got the same
\* answers and have returned their payloads
C16_Witness ==
    /\ reqs["c1"].pc = "done" /\ reqs["c2"].pc = "done"
    /\ Deterministic("c1", "c2")
    /\ Len(Conversation("c1")) = 4
    /\ Conversation("c1")[3].content = FetchCiting
    /\ reqs["c1"].result.sources # <<>>
    /\ reqs["c2"].result.tools_used = <<"fetch_url_content">>

\* the accumulators of a request that is served alone, after the first n
\* messages of the conversation msgs went through lines 280-297
RECURSIVE Replay(_, _)
Replay(msgs, n) ==
    IF n = 0 THEN NoAccumulators
    ELSE LET m == msgs[n]
         IN  IF m.role = "assistant"
             THEN [Replay(msgs, n - 1) EXCEPT !.response_text = CollectText(@, m),
                                              !.tool_calls = CollectToolCalls(@, m)]
             ELSE IF m.role = "tool"
             THEN [Replay(msgs, n - 1) EXCEPT !.sources = ExtractSources(@, <<m>>)]
             ELSE Replay(msgs, n - 1)

\* the payload of a request that is served alone and ends with conversation msgs
Alone(msgs) ==
    LET acc == Replay(msgs, Len(msgs))
    IN  [response |-> FinalText(acc.response_text),
         tools_used |-> acc.tool_calls,
         sources |-> UniqueSources(acc.sources),
         status |-> "success"]

(***************************************************************************)
(* C17.  Under every interleaving of the steps of two requests, a step of  *)
(* one request leaves the other request, its conversation and its          *)
(* accumulators as they were; the accumulators of a request are at any     *)
(* time what its own conversation gives when served alone, and so is the   *)
(* payload it returns.                                                     *)
(***************************************************************************)
C17_RequestsIndependent ==
    /\ [][\A r \in Clients : reqs'[r].pc # reqs[r].pc =>
             \A o \in Clients \ {r} :
                 /\ reqs'[o] = reqs[o]
                 /\ Conversation(o)' = Conversation(o)
                 /\ Accumulators(o)' = Accumulators(o)]_vars
    /\ [](\A r \in Started :
             /\ Accumulators(r) = Replay(Conversation(r), Len(Conversation(r)))
             /\ reqs[r].pc = "done" => reqs[r].result = Alone(Conversation(r)))

\* both requests are under way at once, on different conversations; one
\* has collected a source and a tool name, the other neither
C17_Witness ==
    \E r, o \in Clients :
        /\ reqs[r].pc = "agent" /\ reqs[r].step = 2
        /\ Last(Conversation(r)).content = FetchCiting
        /\ reqs[r].sources # <<>> /\ reqs[r].tool_calls # <<>>
        /\ reqs[o].pc = "tools" /\ reqs[o].step = 1
        /\ Last(Conversation(o)).tool_calls[1].name = UnknownTool
        /\ reqs[o].sources = <<>>

\* the ToolRequests of the most recent assistant message of msgs that have
\* no tool-role message after it
Unanswered(msgs) ==
    LET asst == {i \in 1..Len(msgs) : msgs[i].role = "assistant"}
    IN  IF asst = {} THEN {}
        ELSE LET a == CHOOSE i \in asst : \A j \in asst : j <= i
             IN  {k \in 1..Len(msgs[a].tool_calls) :
                     ~\E i \in (a + 1)..Len(msgs) :
                         /\ msgs[i].role = "tool"
                         /\ msgs[i].tool_call_id = msgs[a].tool_calls[k].id}

(***************************************************************************)
(* C18.  The Model Gateway is called only from the model-call state, with  *)
(* the whole conversation as it is then, in which no ToolRequest of the    *)
(* most recent assistant message is unanswered and, after the first call,  *)
(* the last message is a tool-role message; tool-role messages are added   *)
(* only by a dispatch, which starts from an assistant message with         *)
(* ToolRequests, calls no model and hands over to the model call.          *)
(***************************************************************************)
C18_StrictlySequential ==
    [][/\ model_input' # model_input =>
             /\ pc = "agent"
             /\ model_input' = messages
             /\ Unanswered(messages) = {}
             /\ Len(messages) > 1 => Last(messages).role = "tool"
       /\ Len(messages') # Len(messages) /\ Last(messages').role = "tool" =>
             /\ pc = "tools"
             /\ Last(messages).role = "assistant"
             /\ Unanswered(messages) = 1..Len(Last(messages).tool_calls)
             /\ Unanswered(messages) # {}
             /\ Unanswered(messages') = {}
             /\ model_input' = model_input
             /\ pc' = "agent"
       /\ pc = "agent" /\ messages' # messages => model_input' # model_input]_vars

\* the second model call got the conversation with both tool-role messages
\* of the dispatch before it, and has answered
C18_Witness ==
    /\ Len(model_input) = 4
    /\ model_input[3].role = "tool" /\ model_input[4].role = "tool"
    /\ Len(messages) = 5
    /\ SubSeq(messages, 1, 4) = model_input
    /\ messages[5].role = "assistant"

(***************************************************************************)
(* C19.  Two requests with the same query and different depth hints start  *)
(* from the same initial conversation, which is the prompt built from the  *)
(* query alone; whenever their conversations are equal, so are their       *)
(* accumulators and, at the same point of the run, status and payload;     *)
(* and with the same answers of the Model Gateway and the tools both end   *)
(* alike, with the same conversation, status and payload.                  *)
(***************************************************************************)
C19_DepthIgnored ==
    \A r, o \in Started :
        (reqs[r].query = reqs[o].query /\ reqs[r].depth # reqs[o].depth)
        => /\ Conversation(r)[1] = HumanMessage(research_prompt(reqs[r].query))
           /\ Conversation(r)[1] = Conversation(o)[1]
           /\ Conversation(r) = Conversation(o) =>
                 /\ Accumulators(r) = Accumulators(o)
                 /\ reqs[r].step = reqs[o].step
                 /\ reqs[r].pc = reqs[o].pc =>
                       /\ reqs[r].status_code = reqs[o].status_code
                       /\ reqs[r].result = reqs[o].result
           /\ (/\ Deterministic(r, o)
               /\ reqs[r].pc \in Terminal
               /\ reqs[o].pc \in Terminal)
              => /\ Conversation(r) = Conversation(o)
                 /\ reqs[r].pc = reqs[o].pc
                 /\ reqs[r].result = reqs[o].result

\* a quick and a deep request for the same query have both been answered,
\* after the same fetch, with the same payload
C19_Witness ==
    /\ reqs["c1"].depth = "quick" /\ reqs["c2"].depth = "deep"
    /\ reqs["c1"].query = reqs["c2"].query
    /\ reqs["c1"].pc = "done" /\ reqs["c2"].pc = "done"
    /\ Conversation("c1") = Conversation("c2")
    /\ Len(Conversation("c1")) = 4
    /\ Conversation("c2")[3].content = FetchCiting
    /\ reqs["c1"].result = reqs["c2"].result
    /\ reqs["c1"].result.sources # <<>>

(***************************************************************************)
(* C20.  The sources field of the loop state is empty at all times.  A     *)
(* step in which the adapter records a text, a tool name or a URL adds to  *)
(* the conversation exactly the messages of the node that ran (one for a   *)
(* model call, one per ToolRequest for a dispatch) and changes none that   *)
(* was there; where the loop goes next follows from the conversation and   *)
(* the number of supersteps alone; and building the payload (fallback      *)
(* text, de-duplication) changes nothing of the loop state.                *)
(***************************************************************************)
C20_BookkeepingApart ==
    /\ [](state_sources = <<>>)
    /\ [][/\ (\/ response_text' # response_text
              \/ tool_calls' # tool_calls
              \/ sources' # sources) /\ pc # "idle" =>
                /\ pc \in {"agent", "tools"}
                /\ SubSeq(messages', 1, Len(messages)) = messages
                /\ Len(messages') = Len(messages) +
                      (IF pc = "agent" THEN 1 ELSE Len(Last(messages).tool_calls))
          /\ pc = "agent" /\ messages' # messages =>
                pc' = IF Len(Last(messages').tool_calls) = 0 THEN "end"
                      ELSE IF step' >= RecursionLimit THEN "error" ELSE "tools"
          /\ pc = "tools" => pc' = "agent"
          /\ pc = "end" =>
                /\ messages' = messages
                /\ step' = step
                /\ state_sources' = state_sources]_vars

\* the adapter has recorded a text, tool names and more URLs than it
\* returns, and the loop state's sources field is still empty
C20_Witness ==
    /\ pc = "done"
    /\ state_sources = <<>>
    /\ response_text # <<>>
    /\ tool_calls # <<>>
    /\ Len(sources) > Len(result.sources)
    /\ result.sources # <<>>

(***************************************************************************)
(* C21.  In the frontend session conversation_history never has more       *)
(* entries than request_count says; and whenever the history gets shorter  *)
(* or the count gets smaller, it is Clear History at work: both are reset  *)
(* in the same run, to the empty list and to 0.                            *)
(***************************************************************************)
C21_HistoryWithinCount ==
    /\ [](Len(conversation_history) <= request_count)
    /\ [][(\/ Len(conversation_history') < Len(conversation_history)
           \/ request_count' < request_count)
          => /\ conversation_history' = <<>>
             /\ request_count' = 0]_vars

\* a request was answered and saved, then Clear History was clicked: the
\* history is empty and the count is 0 again
C21_Witness ==
    /\ answer.status = 200
    /\ answer.ended = "completed"
    /\ conversation_history = <<>>
    /\ request_count = 0

(***************************************************************************)
(* C22.  A Process Request run counts one request whatever happens.  It    *)
(* adds to conversation_history only when the backend answered 200, and    *)
(* then exactly one entry, made of the text sent and the payload; it       *)
(* empties user_input only when the backend answered 200; a run that       *)
(* reaches its end after a 200 does both.  After any other status, a       *)
(* connection error, a timeout or another exception, the history and       *)
(* user_input are as before.                                               *)
(***************************************************************************)
C22_HistoryOnSuccessOnly ==
    [][request_count' = request_count + 1 =>
          LET ok == answer'.kind = "http" /\ answer'.status = 200
          IN  /\ answer'.kind # "none"
              /\ ~ok => /\ conversation_history' = conversation_history
                        /\ user_input' = user_input
              /\ ok /\ answer'.ended = "completed" =>
                    /\ Len(conversation_history') = Len(conversation_history) + 1
                    /\ user_input' = <<>>
              /\ \/ conversation_history' = conversation_history
                 \/ /\ Len(conversation_history') = Len(conversation_history) + 1
                    /\ SubSeq(conversation_history', 1, Len(conversation_history))
                          = conversation_history
                    /\ ~EmptyQuery(Last(conversation_history').user_message)
                    /\ \E p \in Payloads :
                          /\ Last(conversation_history').agent_response = p.response
                          /\ Last(conversation_history').tools_used = p.tools_used
                          /\ Last(conversation_history').sources = p.sources
              /\ user_input' \in {user_input, <<>>}]_vars

\* a request answered with 500 came after an answered one: the count is
\* two, the history has the one entry, the example is still in the input
C22_Witness ==
    /\ request_count = 2
    /\ Len(conversation_history) = 1
    /\ answer.kind = "http" /\ answer.status = 500
    /\ user_input \in Examples

====
